---- MODULE Spec2Model ----
(***************************************************************************)
(* monitor.py: the IPython/Jupyter console monitor of jupyter-vim.         *)
(*                                                                         *)
(* The script connects to a kernel (the handshake loop), chooses where     *)
(* sys.stdout goes, and then runs IPythonMonitor.listen(), which drains    *)
(* the kernel's iopub messages and renders them as a transcript.           *)
(*                                                                         *)
(* Text is a sequence of pieces whose concatenation is the Python string.  *)
(* Every whitespace character is a piece of its own, and strings that the  *)
(* code measures, strips or searches (code text, prompts) are written one  *)
(* character per piece.                                                    *)
(***************************************************************************)
EXTENDS Integers, Sequences, FiniteSets, TLC

(***************************************************************************)
(* Bounds of the model.                                                    *)
(***************************************************************************)
\* messages drained from the iopub channel in one run of the program
MaxEvents == 4
\* messages one call of get_msgs() returns
MaxBatch == 2

(***************************************************************************)
(* Python values.                                                          *)
(***************************************************************************)
\* Python's None, for execution_count_id and last_msg_type (no message id
\* and no message type of the model is this string)
None == "None"

NL == "\n"
CR == "\r"
\* the escape character '\033' followed by '['
CSI == "\\033["
Whitespace == {" ", "\n", "\r", "\t"}

RECURSIVE Digits(_)
\* str(n) for an int n >= 0, one digit per piece
Digits(n) ==
    LET d == <<"0", "1", "2", "3", "4", "5", "6", "7", "8", "9">>
    IN  IF n < 10 THEN <<d[n + 1]>> ELSE Digits(n \div 10) \o <<d[(n % 10) + 1]>>

RECURSIVE Rstrip(_)
\* str.rstrip(): trailing whitespace removed
Rstrip(s) ==
    IF s # <<>> /\ s[Len(s)] \in Whitespace THEN Rstrip(SubSeq(s, 1, Len(s) - 1)) ELSE s

RECURSIVE Lstrip(_)
Lstrip(s) ==
    IF s # <<>> /\ s[1] \in Whitespace THEN Lstrip(Tail(s)) ELSE s

\* str.strip()
Strip(s) == Lstrip(Rstrip(s))

RECURSIVE Replace(_, _, _)
\* s.replace(c, r) for a one-character c
Replace(s, c, r) ==
    IF s = <<>> THEN <<>>
    ELSE (IF s[1] = c THEN r ELSE <<s[1]>>) \o Replace(Tail(s), c, r)

RECURSIVE Spaces(_)
\* ' ' * k (the empty string for k <= 0)
Spaces(k) == IF k <= 0 THEN <<>> ELSE <<" ">> \o Spaces(k - 1)

\* c in s, for a one-character c
Contains(s, c) == \E i \in 1..Len(s) : s[i] = c

RECURSIVE Flatten(_)
\* the concatenation of a sequence of texts
Flatten(ss) == IF ss = <<>> THEN <<>> ELSE ss[1] \o Flatten(Tail(ss))

(***************************************************************************)
(* colorize (monitor.py 35-46)                                             *)
(***************************************************************************)
colors == [black |-> 0, red |-> 1, green |-> 2, yellow |-> 3,
           blue |-> 4, magenta |-> 5, cyan |-> 6, white |-> 7]

\* a color given by name: '\033[' + str(colors[color] + (90 if bright else 30))
colorizeNamed(string, color, bold, bright) ==
    <<CSI>> \o Digits(colors[color] + (IF bright THEN 90 ELSE 30))
        \o (IF bold THEN <<";1">> ELSE <<>>) \o <<"m">> \o string \o <<CSI, "0", "m">>

\* a color given by number: '\033[38;5;%d' % color
colorize(string, color, bold) ==
    <<CSI, "38;5;">> \o Digits(color)
        \o (IF bold THEN <<";1">> ELSE <<>>) \o <<"m">> \o string \o <<CSI, "0", "m">>

(***************************************************************************)
(* Messages of the iopub channel, as the code reads them: msg['msg_type'], *)
(* msg['parent_header'] (session, msg_id) and msg['content'].              *)
(***************************************************************************)
Message(type, parent, content) ==
    [msg_type |-> type, parent_header |-> parent, content |-> content]

\* the parent header of a reply to the request `id` of the client `session`
Parent(session, id) == [session |-> session, msg_id |-> id]
\* a message that answers no request: parent_header is {}
NoParent == [k \in {} |-> ""]

\* no message: the loop variable msg before the first message is drained
NoMessage == [msg_type |-> None, parent_header |-> NoParent, content |-> NoParent]

\* dict.get(key, default)
Get(d, key, default) == IF key \in DOMAIN d THEN d[key] ELSE default

\* the code Vim sends once to make its session known (monitor.py 88)
VimClientCode ==
    <<"\"", "_", "v", "i", "m", "_", "c", "l", "i", "e", "n", "t", "\"", ";",
      "_", "=", "_", ";", "_", "_", "=", "_", "_">>

ExecuteInput(parent, count, code) ==
    Message("execute_input", parent, [execution_count |-> count, code |-> code])
ExecuteResult(parent, count, text) ==
    Message("execute_result", parent,
            [execution_count |-> count, data |-> ("text/plain" :> text)])
DisplayData(parent, text) ==
    Message("display_data", parent, [data |-> ("text/plain" :> text)])
Error(parent, traceback) ==
    Message("error", parent, [traceback |-> traceback])
Stream(parent, text) ==
    Message("stream", parent, [name |-> "stdout", text |-> text])
Status(parent, state) ==
    Message("status", parent, [execution_state |-> state])
ClearOutput(parent) ==
    Message("clear_output", parent, [wait |-> FALSE])
CommOpen(parent) ==
    Message("comm_open", parent, [comm_id |-> "c"])
ShutdownReply(parent) ==
    Message("shutdown_reply", parent, [restart |-> FALSE])
Marker(parent) == ExecuteInput(parent, 1, VimClientCode)

\* code texts, values and tracebacks the kernel sends in the model
Code2plus2 == <<"2", "+", "2">>
CodeTwoLines == <<"x", NL, "y", NL>>
Traceback2 == << <<"Traceback...">>, <<"ValueError">> >>

\* what the requests of Vim's session produce on the iopub channel
FromVim(s) ==
    { Marker(Parent(s, "m")),
      ExecuteInput(Parent(s, "a"), 5, Code2plus2),
      ExecuteInput(Parent(s, "b"), 3, CodeTwoLines),
      ExecuteResult(Parent(s, "a"), 5, <<"4">>),
      DisplayData(Parent(s, "a"), <<"fig">>),
      Error(Parent(s, "a"), Traceback2),
      Error(Parent(s, "b"), Traceback2),
      Stream(Parent(s, "a"), <<"hi">>),
      Status(Parent(s, "a"), "idle"),
      Status(Parent(s, "b"), "idle"),
      Status(Parent(s, "a"), "busy"),
      Status(Parent(s, ""), "idle"),
      ClearOutput(Parent(s, "a")),
      CommOpen(Parent(s, "a")),
      ShutdownReply(Parent(s, "a")) }

\* what another client's requests produce; it may send the marker too
FromOther(s) ==
    { Marker(Parent(s, "m")),
      ExecuteInput(Parent(s, "a"), 5, Code2plus2),
      Status(Parent(s, "a"), "idle"),
      Stream(Parent(s, "a"), <<"hi">>) }

\* messages with an empty session id, or with no parent header at all
FromNobody ==
    { Marker(Parent("", "m")),
      Stream(Parent("", "a"), <<"hi">>),
      Marker(NoParent),
      Status(NoParent, "starting"),
      ShutdownReply(NoParent) }

\* the messages get_msgs() may return
Msgs == FromVim("S") \cup FromOther("T") \cup FromNobody

(***************************************************************************)
(* The state of the program.                                               *)
(***************************************************************************)
VARIABLES
    pc,                     \* where the script is
    argv_file,              \* len(sys.argv) > 1: a file is given for the transcript
    have_pygments,          \* whether "from pygments import highlight" succeeded
    connected,              \* the handshake loop's flag
    channels,               \* the kernel client's channels: "none", "started", "stopped"
    socket,                 \* whether the name socket is bound (km.connect_iopub() returned)
    console,                \* what the script printed last on its own terminal
    probes,                 \* requests for the terminal device sent on the shell channel
    target,                 \* what sys.stdout is: "console" until it is set
    fetched,                \* the replies the wait for the probe's reply has fetched
    interrupted,            \* a KeyboardInterrupt was raised in the script
    clients,                \* IPythonMonitor.clients
    execution_count_id,     \* IPythonMonitor.execution_count_id
    last_msg_type,          \* IPythonMonitor.last_msg_type
    last_execution_count,   \* IPythonMonitor.last_execution_count
    batch,                  \* messages of the list get_msgs() returned still to come
    msg,                    \* the loop variable of listen(): the message drained last
    n,                      \* messages drained so far
    calls,                  \* the messages handed to a handler, in order
    stdout                  \* what each of these handlers wrote, in order

handshake ==
    <<argv_file, have_pygments, connected, channels, socket, console, probes, target,
      fetched, interrupted>>
monitor == <<clients, execution_count_id, last_msg_type, last_execution_count>>
transcript == <<execution_count_id, last_msg_type, last_execution_count, calls, stdout>>
vars == <<pc, handshake, monitor, batch, msg, n, calls, stdout>>

\* the IPythonMonitor object, as a handler sees it
Self ==
    [execution_count_id |-> execution_count_id,
     last_msg_type |-> last_msg_type,
     last_execution_count |-> last_execution_count]

\* a handler's outcome: the object's fields, the text written, and whether
\* it ended by raising
Return(self, out) == [self |-> self, out |-> out, raised |-> FALSE]
Raise(self, out) == [self |-> self, out |-> out, raised |-> TRUE]

(***************************************************************************)
(* highlight (monitor.py 25-33): pygments' highlight(code, lexer,          *)
(* formatter) when pygments is installed. The lexer strips the newlines    *)
(* around the code and ends it with one; the colours the formatter adds    *)
(* are left out.                                                           *)
(***************************************************************************)
RECURSIVE StripNewlines(_)
StripNewlines(s) ==
    IF s # <<>> /\ s[1] = NL THEN StripNewlines(Tail(s))
    ELSE IF s # <<>> /\ s[Len(s)] = NL THEN StripNewlines(SubSeq(s, 1, Len(s) - 1))
    ELSE s

highlight(code) == StripNewlines(code) \o <<NL>>

(***************************************************************************)
(* IPythonMonitor (monitor.py 63-157)                                      *)
(***************************************************************************)
\* print_prompt: what it writes and what it returns
print_prompt(self, start, color, num_color, count_offset) ==
    LET count == Digits(self.last_execution_count + count_offset)
    IN  [out |-> colorize(Rstrip(start) \o <<" ", "[">>, color, FALSE)
                    \o colorize(count, num_color, TRUE)
                    \o colorize(<<"]", ":", " ">>, color, FALSE),
         ret |-> Strip(start) \o <<" ", "[">> \o count \o <<"]", ":", " ">>]

In == <<"I", "n">>
NewlineIn == <<NL, "I", "n">>
NewlineOut == <<NL, "O", "u", "t">>

\* pyin with lines 98 and 100 exchanged in effect: the prompt is printed
\* from the counter the object held before this event
pyin_StalePrompt(self, m) ==
    LET s1 == [self EXCEPT !.last_execution_count = m.content.execution_count]
        prompt == print_prompt(self, In, 28, 46, 0)
        dots == Spaces(Len(Rstrip(prompt.ret)) - 1) \o <<":", " ">>
        code == highlight(m.content.code)
        output == Replace(Rstrip(code), NL, <<NL>> \o colorize(dots, 28, FALSE))
    IN  IF ~have_pygments
        THEN Raise(s1, <<CR>> \o prompt.out)
        ELSE Return([s1 EXCEPT !.execution_count_id = m.parent_header.msg_id,
                               !.last_msg_type = m.msg_type],
                    <<CR>> \o prompt.out \o output)

pyin(self, m) ==
    LET s1 == [self EXCEPT !.last_execution_count = m.content.execution_count]
        prompt == print_prompt(s1, In, 28, 46, 0)
        dots == Spaces(Len(Rstrip(prompt.ret)) - 1) \o <<":", " ">>
        code == highlight(m.content.code)
        output == Replace(Rstrip(code), NL, <<NL>> \o colorize(dots, 28, FALSE))
    IN  IF ~have_pygments
        THEN \* line 101 names lexer and formatter, which are bound only when
             \* pygments was imported: NameError
             Raise(s1, <<CR>> \o prompt.out)
        ELSE IF "msg_id" \notin DOMAIN m.parent_header
        THEN Raise(s1, <<CR>> \o prompt.out \o output)     \* KeyError
        ELSE Return([s1 EXCEPT !.execution_count_id = m.parent_header.msg_id,
                               !.last_msg_type = m.msg_type],
                    <<CR>> \o prompt.out \o output)

pyout(self, m, prompt) ==
    LET counted == "execution_count" \in DOMAIN m.content
        s0 == IF counted
              THEN [self EXCEPT !.last_execution_count = m.content.execution_count]
              ELSE self
        s1 == IF counted /\ "msg_id" \in DOMAIN m.parent_header
              THEN [s0 EXCEPT !.execution_count_id = m.parent_header.msg_id]
              ELSE s0
    IN  IF (counted /\ "msg_id" \notin DOMAIN m.parent_header)
            \/ ~("data" \in DOMAIN m.content /\ "text/plain" \in DOMAIN m.content.data)
        THEN Raise(s1, <<>>)     \* KeyError
        ELSE LET output == m.content.data["text/plain"]
             IN  Return([s1 EXCEPT !.last_msg_type = m.msg_type],
                        IF prompt
                        THEN print_prompt(s1, NewlineOut, 196, 196, 0).out
                                \o (IF Contains(output, NL) THEN <<NL>> ELSE <<>>)
                                \o output
                        ELSE output)

display_data(self, m) ==
    LET r == pyout(self, m, FALSE)
    IN  [r EXCEPT !.out = <<NL>> \o r.out]

\* pyerr without the test of line 126: the prompt follows every traceback
pyerr_AlwaysPrompts(self, m) ==
    LET lines == m.content.traceback
        written == Flatten([i \in 1..Len(lines) |-> <<NL>> \o lines[i]])
    IN  Return([self EXCEPT !.last_msg_type = m.msg_type],
               written \o print_prompt(self, NewlineIn, 28, 46, 0).out)

\* pyerr without line 128: the kind of the error is not recorded
pyerr_KeepsKind(self, m) ==
    LET lines == m.content.traceback
        written == Flatten([i \in 1..Len(lines) |-> <<NL>> \o lines[i]])
    IN  Return(self,
               written \o (IF self.last_msg_type \notin {"execute_input", "pyin"}
                           THEN print_prompt(self, NewlineIn, 28, 46, 0).out
                           ELSE <<>>))

pyerr(self, m) ==
    LET lines == m.content.traceback
        written == Flatten([i \in 1..Len(lines) |-> <<NL>> \o lines[i]])
    IN  Return([self EXCEPT !.last_msg_type = m.msg_type],
               written \o (IF self.last_msg_type \notin {"execute_input", "pyin"}
                           THEN print_prompt(self, NewlineIn, 28, 46, 0).out
                           ELSE <<>>))

\* stream, were the newline written before every text
stream_AlwaysNewline(self, m) ==
    IF "data" \in DOMAIN m.content
    THEN Return([self EXCEPT !.last_msg_type = m.msg_type],
                <<NL>> \o colorizeNamed(m.content.data, "cyan", FALSE, TRUE))
    ELSE IF "text" \in DOMAIN m.content
    THEN Return([self EXCEPT !.last_msg_type = m.msg_type],
                <<NL>> \o colorizeNamed(m.content.text, "cyan", FALSE, TRUE))
    ELSE Raise(self, <<NL>>)

stream(self, m) ==
    LET lead == IF self.last_msg_type \notin {"pyerr", "error", "stream"}
                THEN <<NL>> ELSE <<>>
    IN  IF "data" \in DOMAIN m.content
        THEN Return([self EXCEPT !.last_msg_type = m.msg_type],
                    lead \o colorizeNamed(m.content.data, "cyan", FALSE, TRUE))
        ELSE IF "text" \in DOMAIN m.content
        THEN Return([self EXCEPT !.last_msg_type = m.msg_type],
                    lead \o colorizeNamed(m.content.text, "cyan", FALSE, TRUE))
        ELSE Raise(self, lead)   \* KeyError raised in the except clause

\* status without line 144: the pending execution id is kept after the prompt
status_KeepsPending(self, m) ==
    IF m.content.execution_state = "idle"
            /\ "msg_id" \in DOMAIN m.parent_header
            /\ m.parent_header.msg_id = self.execution_count_id
    THEN Return(self, print_prompt(self, NewlineIn, 28, 46, 1).out)
    ELSE Return(self, <<>>)

status(self, m) ==
    IF m.content.execution_state = "idle" /\ "msg_id" \notin DOMAIN m.parent_header
    THEN Raise(self, <<>>)       \* KeyError
    ELSE IF m.content.execution_state = "idle"
            /\ m.parent_header.msg_id = self.execution_count_id
    THEN Return([self EXCEPT !.execution_count_id = None],
                print_prompt(self, NewlineIn, 28, 46, 1).out)
    ELSE Return(self, <<>>)

\* clear_output, were the kind of the event recorded as the other handlers do
clear_output_SetsKind(self, m) ==
    Return([self EXCEPT !.last_msg_type = m.msg_type],
           (IF self.last_msg_type \in {"execute_input", "pyin"}
            THEN <<NL, NL>> ELSE <<>>)
               \o <<CSI, "2", "K", CR>>)

clear_output(self, m) ==
    Return(self,
           (IF self.last_msg_type \in {"execute_input", "pyin"}
            THEN <<NL, NL>> ELSE <<>>)      \* print('\n')
               \o <<CSI, "2", "K", CR>>)

\* the fallback handler; str(msg) is the message written out in full
other(self, m) ==
    Return(self,
           <<"msg_type = ", m.msg_type, NL>>              \* print('msg_type = %s' ...)
               \o <<"msg = ", ToString(m), NL>>)           \* print('msg = %s' ...)

\* the handlers getattr finds by name (lines 97-157: the methods and their
\* aliases execute_input, execute_result and error)
HandlerNames ==
    {"pyin", "execute_input", "pyout", "execute_result", "display_data",
     "pyerr", "error", "stream", "status", "clear_output", "other"}
\* the object's other attributes, which getattr finds too
OtherAttributes ==
    {"clients", "execution_count_id", "last_msg_type", "last_execution_count",
     "print_prompt", "listen"}

\* Dispatch with getattr(self, msg_type) and no default: AttributeError for
\* a message type without a handler
Dispatch_NoFallback(self, m) ==
    CASE m.msg_type \in {"pyin", "execute_input"} -> pyin(self, m)
      [] m.msg_type \in {"pyout", "execute_result"} -> pyout(self, m, TRUE)
      [] m.msg_type = "display_data" -> display_data(self, m)
      [] m.msg_type \in {"pyerr", "error"} -> pyerr(self, m)
      [] m.msg_type = "stream" -> stream(self, m)
      [] m.msg_type = "status" -> status(self, m)
      [] m.msg_type = "clear_output" -> clear_output(self, m)
      [] OTHER -> Raise(self, <<>>)

\* getattr(self, msg_type, self.other)(msg)
Dispatch(self, m) ==
    CASE m.msg_type \in {"pyin", "execute_input"} -> pyin(self, m)
      [] m.msg_type \in {"pyout", "execute_result"} -> pyout(self, m, TRUE)
      [] m.msg_type = "display_data" -> display_data(self, m)
      [] m.msg_type \in {"pyerr", "error"} -> pyerr(self, m)
      [] m.msg_type = "stream" -> stream(self, m)
      [] m.msg_type = "status" -> status(self, m)
      [] m.msg_type = "clear_output" -> clear_output(self, m)
      [] m.msg_type \in OtherAttributes -> Raise(self, <<>>)   \* TypeError, AttributeError
      [] OTHER -> other(self, m)

(***************************************************************************)
(* listen (monitor.py 78-95)                                               *)
(***************************************************************************)
\* line 83
IsShutdown(m) == m.msg_type = "shutdown_reply"

\* line 86
Client(m) == Get(m.parent_header, "session", "")

\* IsMarker without the test of client at line 87
IsMarker_AnyClient(m) ==
    /\ m.msg_type \in {"execute_input", "pyin"}
    /\ m.content.code = VimClientCode

\* lines 87-88
IsMarker(m) ==
    /\ Client(m) # ""
    /\ m.msg_type \in {"execute_input", "pyin"}
    /\ m.content.code = VimClientCode

\* IsKnown with the test `if client and client not in self.clients`: a
\* message with no session id goes on to a handler
IsKnown_EmptyPasses(m, known) == Client(m) = "" \/ Client(m) \in known

\* line 91: the message goes on to a handler
IsKnown(m, known) == Client(m) \in known

\* the loop after a message: the next one of the list, or socket.recv() again
AfterMessage(left) == IF left = 0 THEN "recv" ELSE "for"

\* while socket.recv(): a frame arrived, and get_msgs() returns k messages
Recv ==
    /\ pc = "recv"
    /\ socket
    /\ \E k \in 0..MaxBatch :
          /\ n + k <= MaxEvents
          /\ batch' = k
          /\ pc' = AfterMessage(k)
    /\ UNCHANGED <<handshake, monitor, msg, n, calls, stdout>>

\* socket.recv() returns an empty frame, which is false: the loop ends, and
\* with it the script
RecvEmpty ==
    /\ pc = "recv"
    /\ socket
    /\ pc' = "end"
    /\ UNCHANGED <<handshake, monitor, batch, msg, n, calls, stdout>>

\* line 234 when km.connect_iopub() raised at line 190: NameError
RecvUnbound ==
    /\ pc = "recv"
    /\ ~socket
    /\ pc' = "uncaught"
    /\ UNCHANGED <<handshake, monitor, batch, msg, n, calls, stdout>>

\* the next message of the list is taken
Take(m) ==
    /\ pc = "for"
    /\ batch > 0
    /\ msg' = m
    /\ n' = n + 1
    /\ batch' = batch - 1

\* Shutdown with break in the place of sys.exit(0): the rest of the list
\* is dropped and the loop waits for the next frame
Shutdown_Breaks ==
    \E m \in Msgs :
        /\ pc = "for"
        /\ batch > 0
        /\ IsShutdown(m)
        /\ msg' = m
        /\ n' = n + 1
        /\ batch' = 0
        /\ pc' = "recv"
        /\ UNCHANGED <<handshake, monitor, calls, stdout>>

\* Shutdown with the test of lines 83-84 moved after the filter of lines
\* 91-92: the shutdown event of an unknown session is discarded
Shutdown_AfterFilter ==
    \E m \in Msgs :
        /\ Take(m)
        /\ IsShutdown(m)
        /\ pc' = IF IsKnown(m, clients) THEN "sys_exit" ELSE AfterMessage(batch')
        /\ UNCHANGED <<handshake, monitor, calls, stdout>>

\* lines 83-84
Shutdown ==
    \E m \in Msgs :
        /\ Take(m)
        /\ IsShutdown(m)
        /\ pc' = "sys_exit"
        /\ UNCHANGED <<handshake, monitor, calls, stdout>>

\* Register with the marker consumed only while its session is unknown: a
\* repeated marker is rendered as the input it is
Register_FirstOnly ==
    \E m \in Msgs :
        /\ Take(m)
        /\ ~IsShutdown(m)
        /\ IsMarker(m)
        /\ clients' = clients \cup {Client(m)}
        /\ IF Client(m) \in clients
           THEN LET r == Dispatch(Self, m)
                IN  /\ execution_count_id' = r.self.execution_count_id
                    /\ last_msg_type' = r.self.last_msg_type
                    /\ last_execution_count' = r.self.last_execution_count
                    /\ calls' = Append(calls, m)
                    /\ stdout' = Append(stdout, r.out)
                    /\ pc' = IF r.raised THEN "uncaught" ELSE AfterMessage(batch')
           ELSE /\ pc' = AfterMessage(batch')
                /\ UNCHANGED <<execution_count_id, last_msg_type,
                               last_execution_count, calls, stdout>>
        /\ UNCHANGED handshake

\* lines 87-90
Register ==
    \E m \in Msgs :
        /\ Take(m)
        /\ ~IsShutdown(m)
        /\ IsMarker(m)
        /\ clients' = clients \cup {Client(m)}
        /\ pc' = AfterMessage(batch')
        /\ UNCHANGED <<handshake, execution_count_id, last_msg_type,
                       last_execution_count, calls, stdout>>

\* lines 91-92
Discard ==
    \E m \in Msgs :
        /\ Take(m)
        /\ ~IsShutdown(m)
        /\ ~IsMarker(m)
        /\ ~IsKnown(m, clients)
        /\ pc' = AfterMessage(batch')
        /\ UNCHANGED <<handshake, monitor, calls, stdout>>

\* lines 94-95
Handle ==
    \E m \in Msgs :
        /\ Take(m)
        /\ ~IsShutdown(m)
        /\ ~IsMarker(m)
        /\ IsKnown(m, clients)
        /\ LET r == Dispatch(Self, m)
           IN  /\ execution_count_id' = r.self.execution_count_id
               /\ last_msg_type' = r.self.last_msg_type
               /\ last_execution_count' = r.self.last_execution_count
               /\ calls' = Append(calls, m)
               /\ stdout' = Append(stdout, r.out)
               /\ pc' = IF r.raised THEN "uncaught" ELSE AfterMessage(batch')
        /\ UNCHANGED <<handshake, clients>>

(***************************************************************************)
(* Connect to the kernel (monitor.py 162-204)                              *)
(***************************************************************************)
\* what kc.shell_channel.get_msg(timeout=1) does at line 187, and what
\* km.connect_iopub() does after it
ReplyOutcomes == {"reply", "iopub_error", "Empty", "KeyError", "Exception"}

\* lines 166-171: the connection file is found and loaded, the client made
Lookup ==
    /\ pc = "lookup"
    /\ pc' = "start"
    /\ UNCHANGED <<handshake, monitor, batch, msg, n, calls, stdout>>

\* line 166: find_connection_file finds no kernel*.json and raises IOError,
\* outside the try statement
LookupFails ==
    /\ pc = "lookup"
    /\ pc' = "uncaught"
    /\ UNCHANGED <<handshake, monitor, batch, msg, n, calls, stdout>>

\* line 172
StartChannels ==
    /\ pc = "start"
    /\ channels' = "started"
    /\ pc' = "ping"
    /\ UNCHANGED <<argv_file, have_pygments, connected, socket, console, probes, target,
                   fetched, interrupted, monitor, batch, msg, n, calls, stdout>>

\* lines 175-185: send('', silent=True)
Ping ==
    /\ pc = "ping"
    /\ pc' = "reply"
    /\ UNCHANGED <<handshake, monitor, batch, msg, n, calls, stdout>>

\* lines 186-204: the try statement, with its except and finally clauses
Reply ==
    /\ pc = "reply"
    /\ \E o \in ReplyOutcomes :
          CASE o = "reply" ->
                 \* lines 187-192
                 /\ connected' = TRUE
                 /\ socket' = TRUE
                 /\ console' = "connected"
                 /\ pc' = "stdout"
                 /\ UNCHANGED channels
            [] o = "iopub_error" ->
                 \* line 190 raises after line 188: the trace is printed, the
                 \* finally clause stops nothing and the while loop ends
                 /\ connected' = TRUE
                 /\ console' = "traceback"
                 /\ pc' = "stdout"
                 /\ UNCHANGED <<socket, channels>>
            [] o \in {"Empty", "KeyError"} ->
                 \* lines 197-198, 202-204
                 /\ channels' = "stopped"
                 /\ pc' = "lookup"
                 /\ UNCHANGED <<connected, socket, console>>
            [] o = "Exception" ->
                 \* lines 199-204
                 /\ console' = "traceback"
                 /\ channels' = "stopped"
                 /\ pc' = "lookup"
                 /\ UNCHANGED <<connected, socket>>
    /\ UNCHANGED <<argv_file, have_pygments, probes, target, fetched, interrupted,
                   monitor, batch, msg, n, calls, stdout>>

\* the places of the handshake where a KeyboardInterrupt can be raised
HandshakePlaces == {"lookup", "start", "ping", "reply", "stdout", "tty_wait"}

\* what the script does with a KeyboardInterrupt raised at `place`: only
\* line 187's is inside the try statement (lines 194-195: sys.exit(0))
OnInterrupt(place) == IF place = "reply" THEN "sys_exit" ELSE "uncaught"

\* Ctrl-C or SIGINT during the handshake
Interrupt ==
    /\ pc \in HandshakePlaces
    /\ interrupted' = TRUE
    /\ pc' = OnInterrupt(pc)
    \* lines 202-204, on the way out of the try statement
    /\ channels' = IF pc = "reply" /\ ~connected THEN "stopped" ELSE channels
    /\ UNCHANGED <<argv_file, have_pygments, connected, socket, console, probes, target,
                   fetched, monitor, batch, msg, n, calls, stdout>>

(***************************************************************************)
(* Set stdout (monitor.py 209-228)                                         *)
(***************************************************************************)
\* the request ids on the shell channel: the pings' and the probe's
PingId == "ping"
ProbeId == "probe"

\* replies that may arrive on the shell channel after the probe is sent:
\* the probe's, with the terminal the kernel runs in as the value of the
\* user expression; the probe's when os.ttyname(1) failed in the kernel, with
\* no user expressions; and a late one to a ping
ShellReplies ==
    { [parent_header |-> [msg_id |-> ProbeId], tty |-> "/dev/pts/1"],
      [parent_header |-> [msg_id |-> ProbeId], status |-> "error"],
      [parent_header |-> [msg_id |-> PingId], tty |-> "/dev/pts/9"] }

\* the request ids of the replies fetched so far: a request is replied to once
Answered == {fetched[i].parent_header.msg_id : i \in 1..Len(fetched)}

\* lines 209-213: the file given as argument
OpenFile ==
    /\ pc = "stdout"
    /\ argv_file
    /\ target' = "file"
    /\ pc' = "recv"
    /\ UNCHANGED <<argv_file, have_pygments, connected, channels, socket, console,
                   probes, fetched, interrupted, monitor, batch, msg, n, calls, stdout>>

\* lines 216-217: the probe for the kernel's terminal
SendProbe ==
    /\ pc = "stdout"
    /\ ~argv_file
    /\ probes' = probes + 1
    /\ pc' = "tty_wait"
    /\ UNCHANGED <<argv_file, have_pygments, connected, channels, socket, console,
                   target, fetched, interrupted, monitor, batch, msg, n, calls, stdout>>

\* TtyWait, were the first reply fetched taken for the probe's
TtyWait_AnyReply ==
    /\ pc = "tty_wait"
    /\ \/ UNCHANGED <<pc, target, fetched>>
       \/ \E r \in ShellReplies :
             /\ r.parent_header.msg_id \notin Answered
             /\ fetched' = Append(fetched, r)
             /\ IF "tty" \in DOMAIN r
                THEN target' = r.tty /\ pc' = "recv"
                ELSE pc' = "uncaught" /\ UNCHANGED target
    /\ UNCHANGED <<argv_file, have_pygments, connected, channels, socket, console,
                   probes, interrupted, monitor, batch, msg, n, calls, stdout>>

\* lines 218-228: one turn of the loop that waits for the probe's reply
TtyWait ==
    /\ pc = "tty_wait"
    /\ \/ \* Empty (lines 227-228)
          UNCHANGED <<pc, target, fetched>>
       \/ \E r \in ShellReplies :
             /\ r.parent_header.msg_id \notin Answered
             /\ fetched' = Append(fetched, r)
             /\ IF r.parent_header.msg_id = ProbeId
                THEN IF "tty" \in DOMAIN r
                     THEN target' = r.tty /\ pc' = "recv"
                     \* line 222: KeyError, which line 227 does not catch
                     ELSE pc' = "uncaught" /\ UNCHANGED target
                ELSE UNCHANGED <<pc, target>>
    /\ UNCHANGED <<argv_file, have_pygments, connected, channels, socket, console,
                   probes, interrupted, monitor, batch, msg, n, calls, stdout>>

(***************************************************************************)
(* The program.                                                            *)
(***************************************************************************)
Init ==
    /\ pc = "lookup"
    /\ argv_file \in BOOLEAN
    /\ have_pygments \in BOOLEAN
    /\ connected = FALSE
    /\ channels = "none"
    /\ socket = FALSE
    /\ console = ""
    /\ probes = 0
    /\ target = "console"
    /\ fetched = <<>>
    /\ interrupted = FALSE
    /\ clients = {}
    /\ execution_count_id = None
    /\ last_msg_type = None
    /\ last_execution_count = 0
    /\ batch = 0
    /\ msg = NoMessage
    /\ n = 0
    /\ calls = <<>>
    /\ stdout = <<>>

Next ==
    \/ Lookup
    \/ LookupFails
    \/ StartChannels
    \/ Ping
    \/ Reply
    \/ Interrupt
    \/ OpenFile
    \/ SendProbe
    \/ TtyWait
    \/ Recv
    \/ RecvEmpty
    \/ RecvUnbound
    \/ Shutdown
    \/ Register
    \/ Discard
    \/ Handle

Spec == Init /\ [][Next]_vars

\* the exit code of the process once it has ended
Ended == pc \in {"sys_exit", "end", "uncaught"}
ExitCode == IF pc = "uncaught" THEN 1 ELSE 0

(***************************************************************************)
(* What the properties below are stated with.                              *)
(***************************************************************************)
RECURSIVE Shown(_, _)
\* the text a terminal shows: s without its colour sequences, each running
\* from the escape to the next "m"
Shown(s, escaped) ==
    IF s = <<>> THEN <<>>
    ELSE IF escaped THEN Shown(Tail(s), s[1] # "m")
    ELSE IF s[1] = CSI THEN Shown(Tail(s), TRUE)
    ELSE <<s[1]>> \o Shown(Tail(s), FALSE)

Visible(s) == Shown(s, FALSE)

\* the prompt 'In [count]: ' and 'Out [count]: ' as the terminal shows them
InPrompt(count) == <<"I", "n", " ", "[">> \o Digits(count) \o <<"]", ":", " ">>
OutPrompt(count) == <<"O", "u", "t", " ", "[">> \o Digits(count) \o <<"]", ":", " ">>

StartsWith(s, prefix) ==
    Len(prefix) <= Len(s) /\ SubSeq(s, 1, Len(prefix)) = prefix

\* this step drained a message (msg' is the message)
Drained == n' = n + 1

\* a message is the marker: an input echo of the sentinel code
MarkerEvent(m) ==
    /\ m.msg_type \in {"execute_input", "pyin"}
    /\ m.content.code = VimClientCode

\* the session id of a message, empty when it has none
SessionOf(m) ==
    IF "session" \in DOMAIN m.parent_header THEN m.parent_header.session ELSE ""

InputEcho(m) == m.msg_type \in {"execute_input", "pyin"}
OutputValue(m) == m.msg_type \in {"execute_result", "pyout"}
ErrorEvent(m) == m.msg_type \in {"error", "pyerr"}
StatusEvent(m) == m.msg_type = "status"

(***************************************************************************)
(* C1. Filtering: a drained event whose session id is not registered       *)
(* (an empty or missing session id included) reaches no handler: the       *)
(* fields execution_count_id, last_msg_type and last_execution_count, the  *)
(* list of handler calls and the output are what they were before it.      *)
(***************************************************************************)
C1_Filtering ==
    [][(Drained /\ SessionOf(msg') \notin clients) => UNCHANGED transcript]_vars

\* an input echo of an unregistered session was discarded while another
\* session was registered and had rendered something
C1_Witness ==
    /\ pc \in {"for", "recv"}
    /\ InputEcho(msg) /\ ~MarkerEvent(msg)
    /\ SessionOf(msg) \notin clients
    /\ clients # {}
    /\ stdout # <<>>

(***************************************************************************)
(* C2. Marker registration is idempotent: every marker event of a session  *)
(* S leaves the registered set equal to the set with S added (so a         *)
(* repeated marker leaves it as it is), and no marker event is handed to   *)
(* a handler or changes the transcript state or the output.                *)
(***************************************************************************)
C2_MarkerIdempotent ==
    [][(Drained /\ MarkerEvent(msg') /\ SessionOf(msg') # "")
          => /\ clients' = clients \cup {SessionOf(msg')}
             /\ (SessionOf(msg') \in clients => clients' = clients)
             /\ UNCHANGED transcript]_vars

\* the marker of S was drained after a handler had run for S, that is after
\* S was registered
C2_Witness ==
    /\ pc \in {"for", "recv"}
    /\ MarkerEvent(msg) /\ SessionOf(msg) = "S"
    /\ calls # <<>> /\ SessionOf(calls[1]) = "S"
    /\ clients = {"S"}

(***************************************************************************)
(* C3. A status event of a registered session renders a fresh 'In' prompt  *)
(* if and only if its execution_state is idle and its parent id is the     *)
(* pending execution id; the prompt shows the last execution counter plus  *)
(* one and clears the pending id, so that a pending execution gets one     *)
(* prompt: between two status events that rendered a prompt some event     *)
(* set the pending id again. An idle status with another id, or with an    *)
(* empty one, writes nothing and changes nothing.                          *)
(***************************************************************************)
\* the status event m is idle and correlated to the pending id
Correlated(m, pending) ==
    /\ m.content.execution_state = "idle"
    /\ "msg_id" \in DOMAIN m.parent_header
    /\ m.parent_header.msg_id = pending

\* the event sets the pending execution id (lines 104 and 108-110)
Arms(m) ==
    \/ InputEcho(m)
    \/ (OutputValue(m) \/ m.msg_type = "display_data")
          /\ "execution_count" \in DOMAIN m.content

C3_StatusStep ==
    (Drained /\ StatusEvent(msg') /\ SessionOf(msg') \in clients)
        => /\ calls' = Append(calls, msg')
           /\ Len(stdout') = Len(stdout) + 1
           /\ SubSeq(stdout', 1, Len(stdout)) = stdout
           /\ UNCHANGED <<last_msg_type, last_execution_count, clients>>
           /\ IF Correlated(msg', execution_count_id)
              THEN /\ Visible(stdout'[Len(stdout')])
                         = <<NL>> \o InPrompt(last_execution_count + 1)
                   /\ execution_count_id' = None
              ELSE /\ stdout'[Len(stdout')] = <<>>
                   /\ UNCHANGED execution_count_id

C3_OnePromptPerPending ==
    \A i, j \in 1..Len(calls) :
        (/\ i < j
         /\ StatusEvent(calls[i]) /\ stdout[i] # <<>>
         /\ StatusEvent(calls[j]) /\ stdout[j] # <<>>)
            => \E k \in (i + 1)..(j - 1) : Arms(calls[k])

C3_StatusPrompt == [](C3_OnePromptPerPending) /\ [][C3_StatusStep]_vars

\* an idle status rendered the prompt of a pending execution, and the same
\* status, repeated at once, rendered nothing
C3_Witness ==
    \E i \in 1..(Len(calls) - 1) :
        /\ StatusEvent(calls[i]) /\ calls[i + 1] = calls[i]
        /\ Visible(stdout[i]) = <<NL>> \o InPrompt(6)
        /\ stdout[i + 1] = <<>>

(***************************************************************************)
(* C4. The 'In [N]: ' prompt written while an input echo of a registered   *)
(* session is handled shows the execution counter of that event, whatever  *)
(* came before it.                                                         *)
(***************************************************************************)
C4_PromptOwnCounter ==
    \A i \in 1..Len(calls) :
        InputEcho(calls[i])
            => StartsWith(Visible(stdout[i]),
                          <<CR>> \o InPrompt(calls[i].content.execution_count))

\* two input echoes with different counters were rendered, the later with
\* the smaller one
C4_Witness ==
    \E i, j \in 1..Len(calls) :
        /\ i < j
        /\ InputEcho(calls[i]) /\ InputEcho(calls[j])
        /\ calls[i].content.execution_count > calls[j].content.execution_count
        /\ StartsWith(Visible(stdout[j]), <<CR>> \o InPrompt(3))

EndsWith(s, suffix) ==
    Len(suffix) <= Len(s) /\ SubSeq(s, Len(s) - Len(suffix) + 1, Len(s)) = suffix

\* no empty line: no two newlines in a row
NoBlankLine(s) == \A i \in 1..(Len(s) - 1) : ~(s[i] = NL /\ s[i + 1] = NL)

(***************************************************************************)
(* C5. Round trip: for the registered session S, the input echo            *)
(* (counter 5, code "2+2"), the output value (counter 5, value "4") and    *)
(* the idle status of the same request render the code line, then          *)
(* 'Out [5]: ' and '4', then a fresh 'In [6]: ', with no empty line.       *)
(***************************************************************************)
RoundTripInput == ExecuteInput(Parent("S", "a"), 5, Code2plus2)
RoundTripOutput == ExecuteResult(Parent("S", "a"), 5, <<"4">>)
RoundTripIdle == Status(Parent("S", "a"), "idle")

\* what the three events rendered is as claimed, as far as they were handled
RoundTripRendered(i) ==
    /\ EndsWith(Visible(stdout[i]), Code2plus2)
    /\ NoBlankLine(Visible(stdout[i]))
    /\ (i + 1 <= Len(calls) /\ calls[i + 1] = RoundTripOutput)
          => /\ Visible(stdout[i + 1]) = <<NL>> \o OutPrompt(5) \o <<"4">>
             /\ (i + 2 <= Len(calls) /\ calls[i + 2] = RoundTripIdle)
                   => Visible(stdout[i + 2]) = <<NL>> \o InPrompt(6)

C5_RoundTrip ==
    \A i \in 1..Len(calls) : calls[i] = RoundTripInput => RoundTripRendered(i)

\* the same where pygments is installed: there the scenario renders as claimed
C5_RoundTripWithPygments == have_pygments => C5_RoundTrip

\* the three events were handled one after the other
C5_Scenario ==
    \E i \in 1..(Len(calls) - 2) :
        /\ calls[i] = RoundTripInput
        /\ calls[i + 1] = RoundTripOutput
        /\ calls[i + 2] = RoundTripIdle

(***************************************************************************)
(* C6. Error scenario: for a registered session, an input echo with        *)
(* counter 3 followed by an error event with a two-line traceback and no   *)
(* correlated idle status.                                                 *)
(***************************************************************************)
TracebackShown == <<NL, "Traceback...", NL, "ValueError">>

\* the error event follows an input echo with counter 3 that was rendered
ErrorAfterInput(i) ==
    /\ i + 1 <= Len(calls)
    /\ InputEcho(calls[i]) /\ calls[i].content.execution_count = 3
    /\ ErrorEvent(calls[i + 1]) /\ calls[i + 1].content.traceback = Traceback2

\* C6 as claimed: the traceback lines and then a fresh 'In [4]:' prompt
C6_ErrorThenPrompt ==
    \A i \in 1..Len(calls) :
        ErrorAfterInput(i)
            => Visible(stdout[i + 1]) = TracebackShown \o <<NL>> \o InPrompt(4)

\* C6 as amended: the traceback lines, each after a newline, and no prompt
\* (the preceding rendered event is the input echo, for which line 126
\* leaves the prompt out)
C6_ErrorNoPrompt ==
    \A i \in 1..Len(calls) :
        ErrorAfterInput(i) => Visible(stdout[i + 1]) = TracebackShown

\* the error event was handled right after the input echo with counter 3
C6_Witness ==
    \E i \in 1..Len(calls) : ErrorAfterInput(i) /\ stdout[i + 1] # <<>>

(***************************************************************************)
(* C7. An event of a registered session whose kind has no handler of its   *)
(* own (comm_open) goes to the fallback handler, which writes the kind     *)
(* and the whole message; the loop goes on with the next message of the    *)
(* list, or with the next wait when the list is at its end.                *)
(***************************************************************************)
\* the kinds with a handler of their own, and the shutdown kind
DedicatedKinds ==
    {"pyin", "execute_input", "pyout", "execute_result", "display_data",
     "pyerr", "error", "stream", "status", "clear_output", "shutdown_reply"}

C7_FallbackStep ==
    (Drained /\ SessionOf(msg') \in clients /\ msg'.msg_type \notin DedicatedKinds)
        => /\ calls' = Append(calls, msg')
           /\ Len(stdout') = Len(stdout) + 1
           /\ SubSeq(stdout', 1, Len(stdout)) = stdout
           /\ Contains(stdout'[Len(stdout')], msg'.msg_type)
           /\ Contains(stdout'[Len(stdout')], ToString(msg'))
           /\ batch' = batch - 1
           /\ pc' = IF batch' > 0 THEN "for" ELSE "recv"
           /\ UNCHANGED monitor

C7_Fallback == [][C7_FallbackStep]_vars

\* a comm_open was rendered by the fallback handler, and events after it
\* were rendered too: the next of the same list, and one of a later list
C7_Witness ==
    /\ Len(calls) >= 3
    /\ calls[1].msg_type = "comm_open"
    /\ Contains(stdout[1], "comm_open")
    /\ stdout[2] # <<>>
    /\ stdout[3] # <<>>

(***************************************************************************)
(* C8. A shutdown event drained in the loop ends the process at once with  *)
(* exit code 0: it changes nothing else, and nothing happens after it; no  *)
(* later message of the list and no later list is handled.                 *)
(***************************************************************************)
C8_ShutdownStep ==
    /\ (Drained /\ msg'.msg_type = "shutdown_reply")
          => /\ pc' = "sys_exit"
             /\ ExitCode' = 0
             /\ UNCHANGED <<monitor, calls, stdout>>
    /\ pc = "sys_exit" => UNCHANGED vars

C8_ShutdownExits == [][C8_ShutdownStep]_vars

\* the process ended on a shutdown event while messages of the same list
\* were still to come, after it had rendered events
C8_Witness ==
    /\ pc = "sys_exit"
    /\ msg.msg_type = "shutdown_reply"
    /\ batch > 0
    /\ calls # <<>>

(***************************************************************************)
(* C9. The set of registered sessions only grows: every step keeps its     *)
(* members, only a marker event adds one (its session), and the empty      *)
(* session id is never a member.                                           *)
(***************************************************************************)
C9_ClientsStep ==
    /\ clients \subseteq clients'
    /\ clients' # clients
          => /\ Drained
             /\ MarkerEvent(msg')
             /\ clients' = clients \cup {SessionOf(msg')}

C9_ClientsGrow == []("" \notin clients) /\ [][C9_ClientsStep]_vars

\* two sessions are registered, and markers with no session id were drained
C9_Witness ==
    /\ clients = {"S", "T"}
    /\ MarkerEvent(msg) /\ SessionOf(msg) = ""

(***************************************************************************)
(* C10. A user interrupt at any point of the handshake (the lookup of the  *)
(* connection file, the start of the channels, the ping, the wait for its  *)
(* reply, the resolution of the terminal device) ends the process at once  *)
(* with exit code 0.                                                       *)
(***************************************************************************)
C10_InterruptExitsCleanly ==
    interrupted => (pc = "sys_exit" /\ ExitCode = 0)

\* what holds of the code: only the interrupt of the wait for the ping's
\* reply ends the process with exit code 0
C10_InterruptInTry ==
    [][(interrupted' /\ ~interrupted)
          => (pc' = "sys_exit") = (pc = "reply")]_vars


(***************************************************************************)
(* C11: the handshake loop retries after every failure but an interrupt    *)
(***************************************************************************)
\* the places of the handshake loop (lines 163-204)
InHandshakeLoop == pc \in {"lookup", "start", "ping", "reply"}

\* C11: in the handshake loop every failure that is not a user interrupt
\* leads to another attempt: the loop is left only when an attempt has fully
\* succeeded (the reply was received and the socket listening to the
\* broadcast channel is established) or by a user interrupt, and the channels
\* a failed attempt started are stopped before the next attempt starts.
C11_RetryUntilSuccess ==
    /\ ~InHandshakeLoop => interrupted \/ (connected /\ socket)
    /\ pc = "lookup" => channels \in {"none", "stopped"}


(***************************************************************************)
(* C12: where the transcript goes                                          *)
(***************************************************************************)
\* the reply fetched last while waiting for the probe's
LastFetched == fetched[Len(fetched)]

\* the request id a fetched reply answers
RepliesTo(r) == r.parent_header.msg_id

\* sys.stdout has been set: the listening has begun, or has ended
StdoutSet == pc \in {"recv", "for"} \/ n > 0

\* the transcript goes to the file given, and nothing was asked of the kernel
ToFile == target = "file" /\ probes = 0 /\ fetched = <<>>

\* the transcript goes to the terminal named by the reply to the one probe,
\* which is the first reply fetched that answers the probe
ToProbedTerminal ==
    /\ probes = 1
    /\ fetched # <<>>
    /\ RepliesTo(LastFetched) = "probe"
    /\ "tty" \in DOMAIN LastFetched
    /\ target = LastFetched.tty
    /\ \A i \in 1..(Len(fetched) - 1) : RepliesTo(fetched[i]) # "probe"

\* one step of the selection: a probe is sent once, and only without a file;
\* a reply to another request is skipped; the target is set once, to the
\* file or to the value of the reply to the probe
C12_TargetStep ==
    /\ probes' # probes => ~argv_file /\ probes = 0 /\ probes' = 1
    /\ (fetched' # fetched /\ RepliesTo(fetched'[Len(fetched')]) # "probe")
          => pc' = "tty_wait" /\ target' = target
    /\ target' # target =>
          /\ target = "console"
          /\ IF argv_file THEN ToFile' ELSE ToProbedTerminal'

\* C12: with a file path given the transcript is written there and no probe
\* for the terminal is sent; without one exactly one probe is sent and the
\* monitor keeps waiting, skipping empty polls and replies to other requests,
\* until the reply to the probe arrives, and only that reply's value becomes
\* the output target.
C12_OutputTarget ==
    /\ [](pc = "tty_wait" => ~argv_file /\ probes = 1 /\ target = "console")
    /\ [](StdoutSet => IF argv_file THEN ToFile ELSE ToProbedTerminal)
    /\ [][C12_TargetStep]_vars

\* the terminal is set from the probe's reply after a late reply to a ping
\* was skipped
C12_Witness ==
    /\ ~argv_file
    /\ pc = "recv"
    /\ probes = 1
    /\ Len(fetched) = 2
    /\ RepliesTo(fetched[1]) = "ping"
    /\ target = "/dev/pts/1"

\* the transcript goes to the file given
C12_WitnessFile == argv_file /\ pc = "recv" /\ ToFile


(***************************************************************************)
(* C13: what an input echo leaves in the monitor                           *)
(***************************************************************************)
\* this step drained an event of a registered session that is neither the
\* marker nor a shutdown: the event is handed to a handler
Accepted ==
    /\ Drained
    /\ msg'.msg_type # "shutdown_reply"
    /\ ~MarkerEvent(msg')
    /\ SessionOf(msg') \in clients

\* the fields are those of the input echo just drained
SetByInputEcho ==
    /\ last_execution_count' = msg'.content.execution_count
    /\ execution_count_id' = msg'.parent_header.msg_id
    /\ last_msg_type' = msg'.msg_type

\* C13: after an accepted input echo is processed, last_execution_count is
\* the event's counter, execution_count_id (the pending execution id) is the
\* event's own id, and last_msg_type is the kind of the input echo.
C13_InputEchoSetsState ==
    [][(Accepted /\ InputEcho(msg')) => SetByInputEcho]_vars

\* the same of the input echoes whose handler returned
C13_InputEchoReturned ==
    [][(Accepted /\ InputEcho(msg') /\ pc' # "uncaught") => SetByInputEcho]_vars


(***************************************************************************)
(* C14: last_msg_type and the event rendered last                          *)
(***************************************************************************)
\* the handler calls that wrote text to the output
Rendered == {i \in 1..Len(calls) : stdout[i] # <<>>}

\* the kind of the accepted event rendered last, None before the first
LastRenderedKind ==
    IF Rendered = {} THEN None
    ELSE calls[CHOOSE i \in Rendered : \A j \in Rendered : j <= i].msg_type

\* C14: in every reachable state last_msg_type (last_event_kind) is the kind
\* of the accepted event rendered last: after any accepted event that writes
\* text to the output, an idle status that prints a prompt, a clear-output
\* and an unrecognized kind handled by the fallback included, last_msg_type
\* is that event's kind.  Stated of the states no exception has led to, so
\* that a handler that raised half way is not what refutes it.
C14_LastEventKind == pc # "uncaught" => last_msg_type = LastRenderedKind

\* the part of C14 about the fallback alone: an accepted event of a kind
\* without a handler of its own leaves last_msg_type equal to its kind
C14_FallbackSetsKind ==
    [][(Accepted /\ msg'.msg_type \notin DedicatedKinds /\ pc' # "uncaught")
          => last_msg_type' = msg'.msg_type]_vars


(***************************************************************************)
(* C15, C16, C17: the error, stream and clear-output handlers.  The event  *)
(* "rendered before" is the one last_msg_type records, which is how the    *)
(* transcript state defines last_event_kind; C14 is about the events that  *)
(* write text and are not recorded.                                        *)
(***************************************************************************)
\* the text this step's handler wrote
Written == stdout'[Len(stdout')]

\* this step handed the drained event to a handler, which returned
Handled ==
    /\ calls' = Append(calls, msg')
    /\ Len(stdout') = Len(stdout) + 1
    /\ SubSeq(stdout', 1, Len(stdout)) = stdout
    /\ pc' # "uncaught"

\* the preceding rendered event, as recorded, is an input echo
AfterInputEcho == last_msg_type \in {"execute_input", "pyin"}

RECURSIVE NewlinePrefixed(_)
\* the lines of a traceback, each after a newline
NewlinePrefixed(lines) ==
    IF lines = <<>> THEN <<>>
    ELSE <<NL>> \o Head(lines) \o NewlinePrefixed(Tail(lines))

C15_ErrorStep ==
    (Accepted /\ ErrorEvent(msg'))
        => /\ Handled
           /\ Visible(Written) =
                 NewlinePrefixed(msg'.content.traceback)
                     \o (IF AfterInputEcho THEN <<>>
                         ELSE <<NL>> \o InPrompt(last_execution_count))
           /\ last_msg_type' = msg'.msg_type
           /\ UNCHANGED <<last_execution_count, execution_count_id>>

StreamText(m) == IF "data" \in DOMAIN m.content THEN m.content.data ELSE m.content.text

C16_StreamStep ==
    (Accepted /\ msg'.msg_type = "stream")
        => /\ Handled
           /\ Visible(Written) =
                 (IF last_msg_type \in {"pyerr", "error", "stream"} THEN <<>> ELSE <<NL>>)
                     \o StreamText(msg')
           /\ last_msg_type' = "stream"

C17_ClearStep ==
    (Accepted /\ msg'.msg_type = "clear_output")
        => /\ Handled
           /\ Written = (IF AfterInputEcho THEN <<NL, NL>> ELSE <<>>)
                            \o <<"\\033[", "2", "K", "\r">>
           /\ UNCHANGED <<last_execution_count, execution_count_id, last_msg_type,
                          clients>>

C17_StatusStep ==
    (Accepted /\ StatusEvent(msg') /\ ~Correlated(msg', execution_count_id))
        => /\ Handled
           /\ Written = <<>>
           /\ UNCHANGED <<last_execution_count, execution_count_id, last_msg_type,
                          clients>>

LoopStopped == pc = "end" \/ (pc = "sys_exit" /\ ~interrupted)

\* C18: the dispatch loop runs indefinitely, draining after each wake all
\* buffered events and then blocking again; the only way it ever stops is a
\* shutdown event, and no value returned by the wait for activity makes it
\* end.  (Exceptions raised by handlers are left aside here.)
C18_OnlyShutdownStops ==
    LoopStopped => pc = "sys_exit" /\ msg.msg_type = "shutdown_reply"

\* what does hold: sys.exit(0) in the loop is called for a shutdown event
C18_ExitIsShutdown ==
    (pc = "sys_exit" /\ ~interrupted) => msg.msg_type = "shutdown_reply"


(***************************************************************************)
(* C19: the shutdown check precedes the session filter                     *)
(***************************************************************************)
\* the loop goes on with the next message or the next wait
LoopGoesOn == pc' \in {"for", "recv"}

C19_UnregisteredStep ==
    (Drained /\ SessionOf(msg') \notin clients)
        => IF msg'.msg_type = "shutdown_reply"
           THEN pc' = "sys_exit"
           ELSE IF MarkerEvent(msg') /\ SessionOf(msg') # ""
           THEN /\ clients' = clients \cup {SessionOf(msg')}
                /\ UNCHANGED transcript
                /\ LoopGoesOn
           ELSE /\ UNCHANGED <<monitor, calls, stdout>>
                /\ LoopGoesOn

\* C19: a shutdown event ends the dispatch loop whatever its session: the
\* check comes before the session filter, so the shutdown event of a session
\* that never registered, or one with no session id, still ends the process;
\* it is the only kind of event of an unregistered session, besides a
\* marker, that has any effect.
C19_ShutdownBeforeFilter == [][C19_UnregisteredStep]_vars

\* the process ended on a shutdown event with no session id, while another
\* session was registered
C19_Witness ==
    /\ pc = "sys_exit"
    /\ msg.msg_type = "shutdown_reply"
    /\ SessionOf(msg) = ""
    /\ clients # {}


(***************************************************************************)
(* One execution of one client, followed for one event more than Spec      *)
(* follows the events of all clients: the same program, with get_msgs()    *)
(* returning the events of ExecutionMsgs.                                  *)
(***************************************************************************)
MaxExecutionEvents == 5

\* what one request of Vim's session, with request id a, can produce on the
\* iopub channel, after the marker
ExecutionMsgs ==
    { Marker(Parent("S", "m")),
      ExecuteInput(Parent("S", "a"), 5, Code2plus2),
      ExecuteResult(Parent("S", "a"), 5, <<"4">>),
      Stream(Parent("S", "a"), <<"hi">>),
      Error(Parent("S", "a"), Traceback2),
      Status(Parent("S", "a"), "idle"),
      ShutdownReply(Parent("S", "a")) }

\* Recv, for MaxExecutionEvents events in all
RecvExecution ==
    /\ pc = "recv"
    /\ socket
    /\ \E k \in 0..MaxBatch :
          /\ n + k <= MaxExecutionEvents
          /\ batch' = k
          /\ pc' = AfterMessage(k)
    /\ UNCHANGED <<handshake, monitor, msg, n, calls, stdout>>

\* the actions of listen() on an event of ExecutionMsgs
ShutdownExecution == \E m \in ExecutionMsgs : Take(m) /\ Shutdown
RegisterExecution == \E m \in ExecutionMsgs : Take(m) /\ Register
DiscardExecution == \E m \in ExecutionMsgs : Take(m) /\ Discard
HandleExecution == \E m \in ExecutionMsgs : Take(m) /\ Handle

NextExecution ==
    \/ Lookup
    \/ LookupFails
    \/ StartChannels
    \/ Ping
    \/ Reply
    \/ Interrupt
    \/ OpenFile
    \/ SendProbe
    \/ TtyWait
    \/ RecvExecution
    \/ RecvEmpty
    \/ RecvUnbound
    \/ ShutdownExecution
    \/ RegisterExecution
    \/ DiscardExecution
    \/ HandleExecution

SpecExecution == Init /\ [][NextExecution]_vars

(***************************************************************************)
(* C20: one fresh prompt for one execution                                 *)
(***************************************************************************)
\* the counters a prompt can show in the model
PromptCounts == 0..9

\* the i-th handler call ended its text with a fresh 'In' prompt on a line
\* of its own, as the error and status handlers write it
FreshPrompt(i) ==
    /\ ~InputEcho(calls[i])
    /\ \E c \in PromptCounts : EndsWith(Visible(stdout[i]), <<NL>> \o InPrompt(c))

\* the handler calls after the i-th and up to the next input echo
UntilNextInput(i) ==
    {k \in (i + 1)..Len(calls) : \A j \in (i + 1)..k : ~InputEcho(calls[j])}

\* C20: between two consecutive accepted input echoes at most one fresh 'In'
\* prompt is rendered: for one execution the prompt of the error handler and
\* the prompt of a correlated idle status never both appear, and a late
\* output value with an execution counter does not set the pending
\* execution id again so that a second idle status prints a second prompt.
C20_OnePromptPerExecution ==
    \A i \in 1..Len(calls) :
        InputEcho(calls[i])
            => Cardinality({k \in UntilNextInput(i) : FreshPrompt(k)}) <= 1


\* the kernel answers one request with one error at most, and its idle
\* status comes last: the events that follow the i-th call are such an answer
OneAnswer(i) ==
    /\ Cardinality({k \in UntilNextInput(i) : ErrorEvent(calls[k])}) <= 1
    /\ \A k \in UntilNextInput(i) :
          StatusEvent(calls[k]) => k + 1 \notin UntilNextInput(i)

\* C20 of the executions a kernel produces, with one error at most after
\* the input echo and the idle status last: at most one fresh 'In' prompt is
\* rendered, the prompt of the error handler and the prompt of the
\* correlated idle status never both appear.
C20_OnePromptPerAnswer ==
    \A i \in 1..Len(calls) :
        (InputEcho(calls[i]) /\ OneAnswer(i))
            => Cardinality({k \in UntilNextInput(i) : FreshPrompt(k)}) <= 1

====
